---------------------------- MODULE Spec2Model ----------------------------
(***************************************************************************)
(* PMBus register access, sampling loops and voltage command of the        *)
(* MP29816-C tools: the serial tunnel (powertool.py), the Aardvark adapter *)
(* (Sugarloaf_I2C_ver2.py) and the PCIe bridge (powertool_pcie.py with     *)
(* pmbus_common.py).                                                       *)
(*                                                                         *)
(* The three transports are external: what one transport call answers is   *)
(* an input, drawn from the answers that transport can give.               *)
(***************************************************************************)
EXTENDS Integers, Sequences, FiniteSets, TLC

VARIABLES
    scenario,      \* which part of the program runs: "bus", "loop", "vout",
                   \* "timed", "shot", "codec" or "calc"
    transport,     \* "serial", "aardvark" or "pcie"
    devPage,       \* the device's PAGE register
    wirePage,      \* the value of the last PAGE write put on the wire (NoPage: none)
    wireFresh,     \* TRUE iff the last access on the wire was a PAGE write
    lastOp,        \* the last logical bus operation and what it put on the wire
    busHung,       \* a bus operation never returned
    loopKind,      \* which sampling loop runs
    allFail,       \* the transport fails every call
    loopState,     \* "Idle", "Running", "Completed", "Aborted"
    phase,         \* position in the loop body ("tick", "read", "sleep",
                   \* "hung") or in a voltage command ("check", "read_before",
                   \* "write", "read_back", "done")
    todo,          \* the sub-reads of the current attempt that are still to do
    sample_count,  \* rows written (the PCIe loop's sample_num)
    error_count,   \* errors counted
    attempts,      \* attempts started
    rowErr,        \* the row being built holds an error entry
    lastRow,       \* the last row written to the sink
    stopSignal,    \* an interrupt (Ctrl+C) was delivered
    spin,          \* parity of the writes a write loop that never ends repeats
    now,           \* time.time() - start_time, in units of time
    loop_start,    \* current_time: the time the tick in progress began at
    loop_time,     \* the time the last attempt took
    slept,         \* the length of the last sleep
    warned,        \* the last attempt ended with the latency warning
    raw,           \* the 16-bit word a telemetry register gave
    vout_mode,     \* the byte the VOUT_MODE register gives
    mode_fails,    \* the read of VOUT_MODE raises
    reading,       \* the last decoded reading: the path that decoded it,
                   \* its mantissa and its exponent
    arg,           \* the number a computation is called with (a voltage in
                   \* mV, a current limit in A)
    result         \* what the last computation gave, with its name

busVars  == <<devPage, wirePage, wireFresh, lastOp, busHung>>
loopRest ==
    <<loopKind, allFail, loopState, todo, sample_count, error_count,
      attempts, rowErr, lastRow, stopSignal, spin>>
loopVars == <<loopKind, allFail, loopState, phase, todo, sample_count,
              error_count, attempts, rowErr, lastRow, stopSignal, spin>>
clockVars == <<now, loop_start, loop_time, slept, warned>>
codecVars == <<raw, vout_mode, mode_fails, reading, arg, result>>
vars     == <<scenario, transport, clockVars, codecVars, busVars, loopVars>>

---------------------------------------------------------------------------
(* Bounds of the model *)

\* zero-byte answers a write loop gets before a final answer
MaxZeros == 1
\* attempts a sampling loop starts before its duration is over at the latest
MaxAttempts == 12

---------------------------------------------------------------------------
(* Register map *)

PMBusDict ==
    [PAGE |-> 0, OPERATION |-> 1, CLEAR_FAULTS |-> 3, VOUT_MODE |-> 32,
     VOUT_COMMAND |-> 33, MFR_VID_RES_R1 |-> 41, STATUS_WORD |-> 121,
     READ_VOUT |-> 139, READ_IOUT |-> 140, MFR_REG_ACCESS |-> 216,
     REG_ACCESS |-> 216, PHASE1_Current |-> 3072, VOUT_OFFSET |-> 35,
     IOUT_OC_WARN_LIMIT |-> 74, MFR_VR_CONFIG |-> 103]

Pages == {0, 1}
NoPage == -1

---------------------------------------------------------------------------
(* The wire: what a logical operation does to the bus.                     *)
(* A context b carries the device's PAGE register (dev), the last PAGE     *)
(* value written on the wire (wp), whether the last access was a PAGE      *)
(* write (fresh), the accesses of this operation (wire), how the operation *)
(* stands (st: "run", "error", "hang") and the value it returns (ret: the  *)
(* page the data came from and the number of bytes the transport gave).    *)

NoRet == [page |-> NoPage, len |-> -1]

Ctx(dev, wp, fresh) ==
    [dev |-> dev, wp |-> wp, fresh |-> fresh, wire |-> <<>>, st |-> "run",
     ret |-> NoRet]

\* One transport access: kind k ("w" write, "r" read, "c" command only) of
\* register reg, the n-th try of its logical step; ok: the transport did it.
Transmit(b, k, reg, val, n, ok) ==
    LET isPage == (k = "w" /\ reg = PMBusDict.PAGE) IN
    [b EXCEPT
        !.wire  = Append(@, [k |-> k, reg |-> reg, val |-> val, n |-> n,
                             ok |-> ok, wp |-> b.wp, fresh |-> b.fresh]),
        !.wp    = IF isPage THEN val ELSE @,
        !.fresh = isPage,
        !.dev   = IF isPage /\ ok THEN val ELSE @]

Raise(b)      == [b EXCEPT !.st = "error"]
Return(b, r)  == [b EXCEPT !.ret = r]
Hang(b)       == [b EXCEPT !.st = "hang"]

---------------------------------------------------------------------------
(* Serial tunnel: PowerToolI2C.  driver.i2cset / driver.i2cget answer      *)
(* "ok" / "word", report a failure in the response text ("nak" / "none"),  *)
(* or raise ("exc").                                                       *)

SerialWriteResp == {"ok", "nak", "exc"}
SerialReadResp  == {"word", "none", "exc"}

Serial_i2cset(b, k, reg, val, resp) ==
    IF b.st # "run" THEN b
    ELSE LET w == Transmit(b, k, reg, val, 1, resp = "ok") IN
         IF resp = "exc" THEN Raise(w) ELSE w

Serial_i2cget(b, reg, len, resp) ==
    IF b.st # "run" THEN b
    ELSE LET w == Transmit(b, "r", reg, 0, 1, resp = "word") IN
         IF resp = "word" THEN Return(w, [page |-> w.dev, len |-> len])
         ELSE Raise(w)

Serial_i2c_write8PMBus(b, reg_addr, data, resp) ==
    Serial_i2cset(b, "w", reg_addr, data, resp)

Serial_i2c_write16PMBus(b, page, reg_addr, data, r1, r2) ==
    Serial_i2cset(Serial_i2c_write8PMBus(b, PMBusDict.PAGE, page, r1),
                  "w", reg_addr, data, r2)

Serial_i2c_read8PMBus(b, page, reg_addr, r1, r2) ==
    Serial_i2cget(Serial_i2c_write8PMBus(b, PMBusDict.PAGE, page, r1),
                  reg_addr, 1, r2)

Serial_i2c_writePMBus_cmd_only(b, page, reg_addr, r1, r2) ==
    Serial_i2cset(Serial_i2c_write8PMBus(b, PMBusDict.PAGE, page, r1),
                  "c", reg_addr, 0, r2)

Serial_i2c_read16PMBus(b, page, reg_addr, r1, r2) ==
    Serial_i2cget(Serial_i2c_write8PMBus(b, PMBusDict.PAGE, page, r1),
                  reg_addr, 2, r2)

Serial_i2c_read16(b, addr1, addr2, r1, r2, r3, r4) ==
    Serial_i2c_read16PMBus(
        Serial_i2c_write16PMBus(b, 0, PMBusDict.MFR_REG_ACCESS, addr2, r1, r2),
        0, addr1, r3, r4)

Serial_i2c_write16(b, addr1, addr2, data, r1, r2, r3, r4) ==
    Serial_i2c_write16PMBus(
        Serial_i2c_write16PMBus(b, 0, PMBusDict.MFR_REG_ACCESS, addr2, r1, r2),
        0, addr1, data, r3, r4)

---------------------------------------------------------------------------
(* Aardvark adapter: AardvarkI2C.  aa_i2c_write answers the number of      *)
(* bytes written: positive ("pos"), an error code ("neg"), or zero; a      *)
(* write answer is the number of zeros given first and what follows them   *)
(* ("zero": nothing but zeros follow).  aa_i2c_write_read hands back the   *)
(* bytes it read: 0, 1 or 2 of the 2 asked for.                            *)

AardvarkWriteResp ==
    [zeros : 0..MaxZeros, final : {"pos", "neg", "zero"}]
AardvarkReadResp == {0, 1, 2}

\* resp = 0; while resp == 0: resp = aa_i2c_write(...)
RECURSIVE Aardvark_write_loop(_, _, _, _, _, _)
Aardvark_write_loop(b, k, reg, val, resp, n) ==
    IF b.st # "run" THEN b
    ELSE IF n <= resp.zeros
    THEN LET w == Transmit(b, k, reg, val, n, FALSE) IN
         Aardvark_write_loop(
             IF reg = PMBusDict.PAGE /\ k = "w" THEN w
             ELSE [w EXCEPT !.fresh = b.fresh],
             k, reg, val, resp, n + 1)
    ELSE IF resp.final = "zero"
    THEN Hang(Transmit(b, k, reg, val, n, FALSE))
    ELSE Transmit(b, k, reg, val, n, resp.final = "pos")

\* int(''.join('%02x' % x for x in reversed(data_array)), 16):
\* int('') raises ValueError, one byte gives a value
Aardvark_byteArrayToLittleEndian(b, len) ==
    IF len = 0 THEN Raise(b) ELSE Return(b, [page |-> b.dev, len |-> len])

Aardvark_write_read(b, reg, len) ==
    IF b.st # "run" THEN b
    ELSE Aardvark_byteArrayToLittleEndian(
             Transmit(b, "r", reg, 0, 1, len = 2), len)

Aardvark_i2c_write8PMBus(b, reg_addr, data, resp) ==
    Aardvark_write_loop(b, "w", reg_addr, data, resp, 1)

Aardvark_i2c_write16PMBus(b, page, reg_addr, data, r1, r2) ==
    Aardvark_write_loop(
        Aardvark_i2c_write8PMBus(b, PMBusDict.PAGE, page, r1),
        "w", reg_addr, data, r2, 1)

Aardvark_i2c_writePMBus_cmd_only(b, page, reg_addr, r1, r2) ==
    Aardvark_write_loop(
        Aardvark_i2c_write8PMBus(b, PMBusDict.PAGE, page, r1),
        "c", reg_addr, 0, r2, 1)

Aardvark_i2c_read16PMBus(b, page, reg_addr, r1, len) ==
    Aardvark_write_read(
        Aardvark_i2c_write8PMBus(b, PMBusDict.PAGE, page, r1), reg_addr, len)

\* dataBuf[0] = data & 0xFF
setIndirectDataBuffer(data) == <<data % 256>>

\* dataBuf[0] = data & 0xFF; dataBuf[1] = (data >> 8) & 0xFF
setIndirectDataBuffer2(data) == <<data % 256, (data \div 256) % 256>>

\* one write of i2c_reg = address1 + address2 + dataBuf, two bytes each,
\* no PAGE write: the first byte is the register, and val is the word the
\* next two bytes make
Aardvark_i2c_write16(b, addr1, addr2, data, resp) ==
    LET i2c_reg == setIndirectDataBuffer2(addr1)
                   \o setIndirectDataBuffer2(addr2)
                   \o setIndirectDataBuffer2(data)
    IN  Aardvark_write_loop(b, "w", i2c_reg[1],
                            i2c_reg[2] + 256 * i2c_reg[3], resp, 1)

\* one write-read of i2c_reg = address1 (one byte) + address2 (two
\* bytes), no PAGE write: val is the word written after the register
Aardvark_i2c_read16(b, addr1, addr2, len) ==
    LET i2c_reg == setIndirectDataBuffer(addr1)
                   \o setIndirectDataBuffer2(addr2)
    IN  IF b.st # "run" THEN b
        ELSE Aardvark_byteArrayToLittleEndian(
                 Transmit(b, "r", i2c_reg[1], i2c_reg[2] + 256 * i2c_reg[3],
                          1, len = 2), len)

---------------------------------------------------------------------------
(* PCIe bridge: PowerToolPCIe.  The i2c tool exits with 0 ("rc0") or not   *)
(* ("rcfail", which stands for a timeout too); a read that exits with 0    *)
(* leaves JSON: a dict with a value ("value"), a list of 2, 1 or 0 bytes,  *)
(* the tool's standard output holding digits or none in the last case.     *)

PCIeWriteResp == {"rc0", "rcfail"}
PCIeReadResp  == {"rcfail", "value", "len2", "len1", "len0_digits",
                  "len0_text"}

PCIe_run_i2c_command(b, k, reg, val, rc0) ==
    IF b.st # "run" THEN b
    ELSE LET w == Transmit(b, k, reg, val, 1, rc0) IN
         IF rc0 THEN w ELSE Raise(w)

\* rs: the tool's answers, one per command run
RECURSIVE PCIe_i2c_write_bytes(_, _, _, _, _)
PCIe_i2c_write_bytes(b, reg_addr, value, page, rs) ==
    IF page # NoPage /\ reg_addr # PMBusDict.PAGE
    THEN PCIe_run_i2c_command(
             PCIe_i2c_write_bytes(b, PMBusDict.PAGE, page, NoPage, <<rs[1]>>),
             "w", reg_addr, value, rs[2] = "rc0")
    ELSE PCIe_run_i2c_command(b, "w", reg_addr, value, rs[Len(rs)] = "rc0")

PCIe_i2c_read_bytes(b, reg_addr, length, page, r1, r2) ==
    LET p == IF page # NoPage
             THEN PCIe_i2c_write_bytes(b, PMBusDict.PAGE, page, NoPage, <<r1>>)
             ELSE b
        o == PCIe_run_i2c_command(p, "r", reg_addr, 0, r2 # "rcfail")
    IN  IF o.st # "run" THEN o
        ELSE CASE r2 = "value"       -> Return(o, [page |-> o.dev, len |-> length])
               [] r2 = "len2"        -> Return(o, [page |-> o.dev, len |-> 2])
               [] r2 = "len1"        -> Return(o, [page |-> o.dev, len |-> 1])
               [] r2 = "len0_digits" -> Return(o, [page |-> o.dev, len |-> 0])
               [] OTHER              -> Raise(o)

PCIe_i2c_read8PMBus(b, page, reg_addr, r1, r2) ==
    PCIe_i2c_read_bytes(b, reg_addr, 1, page, r1, r2)

PCIe_i2c_read16PMBus(b, page, reg_addr, r1, r2) ==
    PCIe_i2c_read_bytes(b, reg_addr, 2, page, r1, r2)

PCIe_i2c_write8PMBus(b, reg_addr, value, r1) ==
    PCIe_i2c_write_bytes(b, reg_addr, value, NoPage, <<r1>>)

PCIe_i2c_write16PMBus(b, page, reg_addr, value, r1, r2) ==
    PCIe_i2c_write_bytes(b, reg_addr, value, page, <<r1, r2>>)

---------------------------------------------------------------------------
(* Register-bus operations, one logical operation per step *)

NoOp == [name |-> "none", page |-> NoPage, arg |-> 0, st |-> "done",
         ret |-> NoRet, wire |-> <<>>, prevDev |-> NoPage]

Here == Ctx(devPage, wirePage, wireFresh)

BusReady(t) == scenario = "bus" /\ transport = t /\ ~busHung

\* the operation name, called for page, leaves the bus as b has it
Done(name, page, b) ==
    /\ lastOp' = [name |-> name, page |-> page, arg |-> 0,
                  st |-> IF b.st = "run" THEN "done" ELSE b.st,
                  ret |-> b.ret, wire |-> b.wire, prevDev |-> devPage]
    /\ devPage' = b.dev
    /\ wirePage' = b.wp
    /\ wireFresh' = b.fresh
    /\ busHung' = (b.st = "hang")
    /\ UNCHANGED <<scenario, transport, clockVars, codecVars, loopVars>>

SerialSetPage ==
    /\ BusReady("serial")
    /\ \E page \in Pages, r \in SerialWriteResp :
          Done("set_page", page,
               Serial_i2c_write8PMBus(Here, PMBusDict.PAGE, page, r))

SerialWrite16PMBus ==
    /\ BusReady("serial")
    /\ \E page \in Pages, r1, r2 \in SerialWriteResp :
          Done("i2c_write16PMBus", page,
               Serial_i2c_write16PMBus(Here, page, PMBusDict.VOUT_COMMAND,
                                       1, r1, r2))

SerialRead8PMBus ==
    /\ BusReady("serial")
    /\ \E page \in Pages, r1 \in SerialWriteResp, r2 \in SerialReadResp :
          Done("i2c_read8PMBus", page,
               Serial_i2c_read8PMBus(Here, page, PMBusDict.VOUT_MODE, r1, r2))

SerialCmdOnly ==
    /\ BusReady("serial")
    /\ \E page \in Pages, r1, r2 \in SerialWriteResp :
          Done("i2c_writePMBus_cmd_only", page,
               Serial_i2c_writePMBus_cmd_only(Here, page,
                                              PMBusDict.CLEAR_FAULTS, r1, r2))

SerialRead16PMBus ==
    /\ BusReady("serial")
    /\ \E page \in Pages, r1 \in SerialWriteResp, r2 \in SerialReadResp :
          Done("i2c_read16PMBus", page,
               Serial_i2c_read16PMBus(Here, page, PMBusDict.READ_VOUT, r1, r2))

SerialRead16 ==
    /\ BusReady("serial")
    /\ \E r1, r2, r3 \in SerialWriteResp, r4 \in SerialReadResp :
          Done("i2c_read16", 0,
               Serial_i2c_read16(Here, PMBusDict.REG_ACCESS,
                                 PMBusDict.PHASE1_Current, r1, r2, r3, r4))

SerialWrite16 ==
    /\ BusReady("serial")
    /\ \E r1, r2, r3, r4 \in SerialWriteResp :
          Done("i2c_write16", 0,
               Serial_i2c_write16(Here, PMBusDict.REG_ACCESS,
                                  PMBusDict.VOUT_OFFSET, 1, r1, r2, r3, r4))

AardvarkSetPage ==
    /\ BusReady("aardvark")
    /\ \E page \in Pages, r \in AardvarkWriteResp :
          Done("set_page", page,
               Aardvark_i2c_write8PMBus(Here, PMBusDict.PAGE, page, r))

AardvarkWrite16PMBus ==
    /\ BusReady("aardvark")
    /\ \E page \in Pages, r1, r2 \in AardvarkWriteResp :
          Done("i2c_write16PMBus", page,
               Aardvark_i2c_write16PMBus(Here, page, PMBusDict.VOUT_COMMAND,
                                         1, r1, r2))

AardvarkCmdOnly ==
    /\ BusReady("aardvark")
    /\ \E page \in Pages, r1, r2 \in AardvarkWriteResp :
          Done("i2c_writePMBus_cmd_only", page,
               Aardvark_i2c_writePMBus_cmd_only(Here, page,
                                                PMBusDict.CLEAR_FAULTS, r1, r2))

AardvarkRead16PMBus ==
    /\ BusReady("aardvark")
    /\ \E page \in Pages, r1 \in AardvarkWriteResp, len \in AardvarkReadResp :
          Done("i2c_read16PMBus", page,
               Aardvark_i2c_read16PMBus(Here, page, PMBusDict.READ_VOUT,
                                        r1, len))

AardvarkRead16 ==
    /\ BusReady("aardvark")
    /\ \E len \in AardvarkReadResp :
          Done("i2c_read16", 0,
               Aardvark_i2c_read16(Here, PMBusDict.REG_ACCESS,
                                   PMBusDict.PHASE1_Current, len))

AardvarkWrite16 ==
    /\ BusReady("aardvark")
    /\ \E r \in AardvarkWriteResp :
          Done("i2c_write16", 0,
               Aardvark_i2c_write16(Here, PMBusDict.REG_ACCESS,
                                    PMBusDict.VOUT_OFFSET, 1, r))

PCIeSetPage ==
    /\ BusReady("pcie")
    /\ \E page \in Pages, r \in PCIeWriteResp :
          Done("set_page", page,
               PCIe_i2c_write8PMBus(Here, PMBusDict.PAGE, page, r))

PCIeWrite16PMBus ==
    /\ BusReady("pcie")
    /\ \E page \in Pages, r1, r2 \in PCIeWriteResp :
          Done("i2c_write16PMBus", page,
               PCIe_i2c_write16PMBus(Here, page, PMBusDict.VOUT_COMMAND,
                                     1, r1, r2))

PCIeRead8PMBus ==
    /\ BusReady("pcie")
    /\ \E page \in Pages, r1 \in PCIeWriteResp, r2 \in PCIeReadResp :
          Done("i2c_read8PMBus", page,
               PCIe_i2c_read8PMBus(Here, page, PMBusDict.VOUT_MODE, r1, r2))

PCIeRead16PMBus ==
    /\ BusReady("pcie")
    /\ \E page \in Pages, r1 \in PCIeWriteResp, r2 \in PCIeReadResp :
          Done("i2c_read16PMBus", page,
               PCIe_i2c_read16PMBus(Here, page, PMBusDict.READ_VOUT, r1, r2))

NoReading == [path |-> "none", mantissa |-> 0, exponent |-> 0]
NoResult == [name |-> "none"]

\* the clock of the sampling loops stands still
ClockIdle ==
    /\ now = 0 /\ loop_start = 0 /\ loop_time = 0 /\ slept = 0
    /\ warned = FALSE

\* nothing is decoded
CodecIdle ==
    /\ raw = 0 /\ vout_mode = 0 /\ mode_fails = FALSE /\ reading = NoReading
    /\ arg = 0 /\ result = NoResult

LoopIdle ==
    /\ loopKind = "none" /\ allFail = FALSE /\ loopState = "Idle"
    /\ phase = "tick" /\ todo = <<>> /\ sample_count = 0 /\ error_count = 0
    /\ attempts = 0 /\ rowErr = FALSE /\ lastRow = "none"
    /\ stopSignal = FALSE
    /\ spin = 0

InitBus ==
    /\ scenario = "bus"
    /\ transport \in {"serial", "aardvark", "pcie"}
    /\ devPage \in Pages
    /\ wirePage = NoPage
    /\ wireFresh = FALSE
    /\ lastOp = NoOp
    /\ busHung = FALSE
    /\ LoopIdle
    /\ ClockIdle
    /\ CodecIdle

\* words the device gives for the phase currents: channel n gives
\* PhaseWord(w, n)
PhaseWords == {0, 255, 4660, 65535}
PhaseWord(w, n) == (w + 257 * n) % 65536

\* Read_Phase_Currents up to channel n - 1 done: sixteen
\* "i2c_read16(REG_ACCESS, PHASEn_Current)", the transport doing every
\* call but the read of channel failAt
RECURSIVE Read_Phase_Currents(_, _, _, _)
Read_Phase_Currents(t, b, n, failAt) ==
    IF n > 16 \/ b.st # "run" THEN b
    ELSE Read_Phase_Currents(
             t,
             IF t = "serial"
             THEN Serial_i2c_read16(b, PMBusDict.REG_ACCESS,
                                    PMBusDict.PHASE1_Current + n - 1,
                                    "ok", "ok", "ok",
                                    IF n = failAt THEN "exc" ELSE "word")
             ELSE Aardvark_i2c_read16(b, PMBusDict.REG_ACCESS,
                                      PMBusDict.PHASE1_Current + n - 1,
                                      IF n = failAt THEN 0 ELSE 2),
             n + 1, failAt)

\* the tuple Read_Phase_Currents returns: each word "& 0xFF"
PhasesOf(b, w) ==
    IF b.st # "run" THEN b
    ELSE Return(b, [page |-> b.dev, len |-> 2,
                    phases |-> [n \in 1..16 |-> PhaseWord(w, n) % 256]])

SerialReadPhaseCurrents ==
    /\ BusReady("serial")
    /\ \E failAt \in 0..16, w \in PhaseWords :
          Done("Read_Phase_Currents", 0,
               PhasesOf(Read_Phase_Currents("serial", Here, 1, failAt), w))

AardvarkReadPhaseCurrents ==
    /\ BusReady("aardvark")
    /\ \E failAt \in 0..16, w \in PhaseWords :
          Done("Read_Phase_Currents", 0,
               PhasesOf(Read_Phase_Currents("aardvark", Here, 1, failAt), w))

NextBus ==
    \/ SerialReadPhaseCurrents \/ AardvarkReadPhaseCurrents
    \/ SerialSetPage \/ SerialWrite16PMBus \/ SerialRead8PMBus
    \/ SerialCmdOnly \/ SerialRead16PMBus \/ SerialRead16 \/ SerialWrite16
    \/ AardvarkSetPage \/ AardvarkWrite16PMBus \/ AardvarkCmdOnly
    \/ AardvarkRead16PMBus \/ AardvarkRead16 \/ AardvarkWrite16
    \/ PCIeSetPage \/ PCIeWrite16PMBus \/ PCIeRead8PMBus \/ PCIeRead16PMBus

SpecBus == InitBus /\ [][NextBus]_vars

---------------------------------------------------------------------------
(* Properties of the register-bus layer (SpecBus) *)

PageScoped(a) == ~(a.k = "w" /\ a.reg = PMBusDict.PAGE)

\* the last try of some write step of the operation failed at the transport
WriteFailed(wire) ==
    \E i \in DOMAIN wire :
        /\ wire[i].k # "r"
        /\ ~wire[i].ok
        /\ (i = Len(wire) \/ wire[i + 1].n = 1)

PagedOps == {"i2c_read8PMBus", "i2c_read16PMBus", "i2c_write16PMBus",
             "i2c_writePMBus_cmd_only", "i2c_read16", "i2c_write16"}
WordReads == {"i2c_read16PMBus", "i2c_read16"}

\* C5: every page-scoped access of a paged operation goes out while the last
\* value written to PAGE is the page the operation asked for, and right
\* after that PAGE write (only repeats of the same access in between).
C5_PageSetBeforeAccess ==
    (scenario = "bus" /\ lastOp.name \in PagedOps) =>
        \A i \in DOMAIN lastOp.wire :
            PageScoped(lastOp.wire[i]) =>
                /\ lastOp.wire[i].wp = lastOp.page
                /\ lastOp.wire[i].fresh

\* C6: no logical step of a bus operation is repeated on the transport, and
\* every bus operation returns.
C6_NoRetries ==
    scenario = "bus" =>
        /\ ~busHung
        /\ \A i \in DOMAIN lastOp.wire : lastOp.wire[i].n = 1

\* C7: an operation whose PAGE write or data write failed at the transport
\* does not end as a success, and a paged read that returns data returns
\* data of the page it asked for.
C7_TransportFailureSurfaces ==
    scenario = "bus" =>
        /\ (lastOp.st = "done" => ~WriteFailed(lastOp.wire))
        /\ (lastOp.name \in PagedOps /\ lastOp.ret # NoRet =>
                lastOp.ret.page = lastOp.page)

\* C8: a word read returns a value only when the transport gave two bytes.
C8_ShortReadIsError ==
    (scenario = "bus" /\ lastOp.name \in WordReads /\ lastOp.ret # NoRet) =>
        lastOp.ret.len = 2

---------------------------------------------------------------------------
(* Sampling loops.  One attempt is a sequence of sub-reads; a sub-read is  *)
(* a word read of reg on page, after a write of PAGE of its own (pre) in   *)
(* the Read_*_Raw helpers and in Read_VOUT_MODE.  scope names the try      *)
(* block that catches its failure: the attempt's "except Exception"        *)
(* ("attempt"), the per-command "except Exception" ("command"), the bare   *)
(* "except:" around Read_VOUT_MODE ("bare"), or the "except Exception" of  *)
(* continuous_register_logging, which returns ("register").                *)

Step(pre, page, reg, scope, cmd) ==
    [pre |-> pre, page |-> page, reg |-> reg, scope |-> scope, cmd |-> cmd]

Read_Vout_Rail_Raw(page) ==
    << Step(TRUE, page, PMBusDict.READ_VOUT, "attempt", 0),
       Step(TRUE, page, PMBusDict.VOUT_MODE, "bare", 0) >>

Read_Iout_Rail_Raw(page) ==
    << Step(TRUE, page, PMBusDict.READ_IOUT, "attempt", 0) >>

Read_Status_Raw(page) ==
    << Step(TRUE, page, PMBusDict.STATUS_WORD, "attempt", 0) >>

\* Read_Vout(page) as command number cmd; the PCIe Read_VOUT_MODE writes
\* no PAGE of its own
Read_Vout(page, scope, cmd, pre) ==
    << Step(FALSE, page, PMBusDict.READ_VOUT, scope, cmd),
       Step(pre, page, PMBusDict.VOUT_MODE, "bare", cmd) >>

Read_Iout(page, scope, cmd) ==
    << Step(FALSE, page, PMBusDict.READ_IOUT, scope, cmd) >>

Read_Status_Word(page, scope, cmd) ==
    << Step(FALSE, page, PMBusDict.STATUS_WORD, scope, cmd) >>

LoopKinds ==
    { [kind |-> "continuous_logging", transport |-> "serial"],
      [kind |-> "continuous_logging", transport |-> "aardvark"],
      [kind |-> "continuous_single_command_logging", transport |-> "serial"],
      [kind |-> "continuous_multi_command_logging", transport |-> "serial"],
      [kind |-> "pcie_log", transport |-> "pcie"],
      [kind |-> "continuous_register_logging", transport |-> "serial"] }

\* the sub-reads of one attempt
Plan(kind) ==
    CASE kind = "continuous_logging" ->
            Read_Vout_Rail_Raw(0) \o Read_Iout_Rail_Raw(0) \o Read_Status_Raw(0)
            \o Read_Vout_Rail_Raw(1) \o Read_Iout_Rail_Raw(1)
            \o Read_Status_Raw(1)
      [] kind = "continuous_single_command_logging" ->
            Read_Vout(0, "attempt", 1, TRUE)
      [] kind = "continuous_multi_command_logging" ->
            Read_Vout(0, "command", 1, TRUE) \o Read_Iout(0, "command", 2)
      [] kind = "pcie_log" ->
            Read_Vout(0, "command", 1, FALSE)
            \o Read_Status_Word(0, "command", 2)
      [] kind = "continuous_register_logging" ->
            << Step(TRUE, 0, PMBusDict.STATUS_WORD, "register", 1) >>

\* what the transport can answer to the calls of one sub-read
Answers(t, fail) ==
    CASE t = "serial" ->
            [w0 : IF fail THEN {"nak", "exc"} ELSE SerialWriteResp,
             w1 : IF fail THEN {"nak", "exc"} ELSE SerialWriteResp,
             r  : IF fail THEN {"none", "exc"} ELSE SerialReadResp]
      [] t = "aardvark" ->
            [w0 : IF fail THEN {a \in AardvarkWriteResp : a.final # "pos"}
                  ELSE AardvarkWriteResp,
             w1 : IF fail THEN {a \in AardvarkWriteResp : a.final # "pos"}
                  ELSE AardvarkWriteResp,
             r  : IF fail THEN {0} ELSE AardvarkReadResp]
      [] t = "pcie" ->
            [w0 : {"rc0"},
             w1 : IF fail THEN {"rcfail"} ELSE PCIeWriteResp,
             r  : IF fail THEN {"rcfail"} ELSE PCIeReadResp]

SubRead(t, b, s, a) ==
    CASE t = "serial" ->
            Serial_i2c_read16PMBus(
                IF s.pre
                THEN Serial_i2c_write8PMBus(b, PMBusDict.PAGE, s.page, a.w0)
                ELSE b,
                s.page, s.reg, a.w1, a.r)
      [] t = "aardvark" ->
            Aardvark_i2c_read16PMBus(
                IF s.pre
                THEN Aardvark_i2c_write8PMBus(b, PMBusDict.PAGE, s.page, a.w0)
                ELSE b,
                s.page, s.reg, a.w1, a.r)
      [] t = "pcie" ->
            PCIe_i2c_read16PMBus(b, s.page, s.reg, a.w1, a.r)

\* "if error_count > 10"
ErrorCeiling == 10

IsPCIe == loopKind = "pcie_log"

\* the loops that run for total_duration
DurationLoops ==
    {"continuous_logging", "continuous_single_command_logging",
     "continuous_multi_command_logging"}

LoopRunning == scenario = "loop" /\ loopState = "Running"

\* the loop goes on at position ph with td still to read
Goes(ph, td, sc, ec, re, lr) ==
    /\ loopState' = "Running"
    /\ phase' = ph
    /\ todo' = td
    /\ sample_count' = sc
    /\ error_count' = ec
    /\ rowErr' = re
    /\ lastRow' = lr

\* the loop ends in state st
Ends(st, ec) ==
    /\ loopState' = st
    /\ phase' = "tick"
    /\ todo' = <<>>
    /\ error_count' = ec
    /\ UNCHANGED <<sample_count, rowErr, lastRow>>

\* after a sub-read: the next one, or the row is written (writer.writerow
\* and "sample_count += 1"; the PCIe loop counted at the top of the body)
Advance(rest, ec, re) ==
    IF rest # <<>>
    THEN Goes("read", rest, sample_count, ec, re, lastRow)
    ELSE Goes("sleep", <<>>,
              IF IsPCIe THEN sample_count ELSE sample_count + 1,
              ec, FALSE, IF re THEN "partial" ELSE "full")

\* the sub-reads left once command cmd has raised
SkipCommand(rest, cmd) ==
    SelectSeq(rest, LAMBDA x : x.cmd # cmd)

\* a sub-read raised in the scope of the attempt's "except Exception"
AttemptFailed ==
    IF error_count + 1 > ErrorCeiling
    THEN Ends("Aborted", error_count + 1)
    ELSE Goes("sleep", <<>>, sample_count, error_count + 1, FALSE, lastRow)

\* a sub-read raised in the scope of a per-command "except Exception":
\* the row gets an error entry; only the serial loop counts it
CommandFailed(rest, cmd) ==
    Advance(SkipCommand(rest, cmd),
            IF IsPCIe THEN error_count ELSE error_count + 1, TRUE)

StartLoop ==
    /\ scenario = "loop" /\ loopState = "Idle"
    /\ Goes("tick", <<>>, 0, 0, FALSE, lastRow)
    /\ UNCHANGED <<scenario, transport, clockVars, codecVars,
                   busVars, loopKind, allFail, attempts,
                   stopSignal, spin>>

\* "if current_time >= total_duration: break"
TickBreak ==
    /\ LoopRunning /\ phase = "tick" /\ loopKind \in DurationLoops
    /\ Ends("Completed", error_count)
    /\ UNCHANGED <<scenario, transport, clockVars, codecVars,
                   busVars, loopKind, allFail, attempts,
                   stopSignal, spin>>

\* the body of the loop starts an attempt ("sample_num += 1" over PCIe)
TickAttempt ==
    /\ LoopRunning /\ phase = "tick" /\ attempts < MaxAttempts
    /\ attempts' = attempts + 1
    /\ Goes("read", Plan(loopKind),
            IF IsPCIe THEN sample_count + 1 ELSE sample_count,
            error_count, FALSE, lastRow)
    /\ UNCHANGED <<scenario, transport, clockVars, codecVars,
                   busVars, loopKind, allFail,
                   stopSignal, spin>>

\* one sub-read of the attempt
SubReadStep ==
    /\ LoopRunning /\ phase = "read"
    /\ \E a \in Answers(transport, allFail) :
          LET s == Head(todo)
              o == SubRead(transport, Here, s, a)
          IN  /\ devPage' = o.dev
              /\ wirePage' = o.wp
              /\ wireFresh' = o.fresh
              /\ CASE o.st = "hang" ->
                        Goes("hung", todo, sample_count, error_count, rowErr,
                             lastRow)
                   [] o.st = "run" -> Advance(Tail(todo), error_count, rowErr)
                   [] o.st = "error" /\ s.scope = "bare" ->
                        Advance(Tail(todo), error_count, rowErr)
                   [] o.st = "error" /\ s.scope = "command" ->
                        CommandFailed(Tail(todo), s.cmd)
                   [] o.st = "error" /\ s.scope = "attempt" -> AttemptFailed
                   [] o.st = "error" /\ s.scope = "register" ->
                        Ends("Aborted", error_count)
    /\ UNCHANGED <<scenario, transport, clockVars, codecVars,
                   lastOp, busHung, loopKind, allFail,
                   attempts, stopSignal, spin>>

\* time.sleep(...) up to the next sample
Sleep ==
    /\ LoopRunning /\ phase = "sleep"
    /\ IsPCIe => attempts < MaxAttempts
    /\ Goes("tick", <<>>, sample_count, error_count, rowErr, lastRow)
    /\ UNCHANGED <<scenario, transport, clockVars, codecVars,
                   busVars, loopKind, allFail, attempts,
                   stopSignal, spin>>

\* "if args.samples > 0 and sample_num >= args.samples: break"
SampleLimit ==
    /\ LoopRunning /\ phase = "sleep" /\ IsPCIe
    /\ Ends("Completed", error_count)
    /\ UNCHANGED <<scenario, transport, clockVars, codecVars,
                   busVars, loopKind, allFail, attempts,
                   stopSignal, spin>>

\* "while resp == 0: resp = aa_i2c_write(...)" with a transport that goes
\* on answering 0: the write is issued again
Spin ==
    /\ LoopRunning /\ phase = "hung"
    /\ spin' = 1 - spin
    /\ UNCHANGED <<scenario, transport, clockVars, codecVars,
                   busVars, loopKind, allFail, loopState,
                   phase, todo, sample_count, error_count, attempts, rowErr,
                   lastRow, stopSignal>>

\* KeyboardInterrupt raised where the loop stands: the bare "except:"
\* around Read_VOUT_MODE catches it like any failure of that read, every
\* other place lets it end the loop
Interrupt ==
    /\ LoopRunning /\ ~stopSignal
    /\ stopSignal' = TRUE
    /\ IF phase \in {"read", "hung"} /\ Head(todo).scope = "bare"
       THEN Advance(Tail(todo), error_count, rowErr)
       ELSE Ends("Completed", error_count)
    /\ UNCHANGED <<scenario, transport, clockVars, codecVars,
                   busVars, loopKind, allFail, attempts,
                   spin>>

\* rail_mapping and the keys of command_mapping of
\* continuous_single_command_logging
rail_mapping == {"TSP_CORE", "TSP_C2C"}
command_mapping ==
    {"READ_VOUT", "READ_IOUT", "READ_TEMP", "READ_DIE_TEMP", "READ_DUTY",
     "READ_PIN", "READ_POUT", "READ_IIN", "STATUS_BYTE", "STATUS_WORD",
     "READ_STATUS", "STATUS_VOUT", "STATUS_IOUT", "STATUS_INPUT",
     "STATUS_TEMPERATURE", "VOUT_MODE", "MFR_IOUT_PEAK", "MFR_TEMP_PEAK"}

\* a result that tells how the loop ended
return_completed_only(st) == st = "Completed"

\* "return True" after the try statement, however the loop ended
continuous_single_command_logging_return(st) == TRUE

\* "if rail not in rail_mapping: return False" and "if command not in
\* command_mapping: return False", before the serial link is opened
SingleCommandRejected ==
    /\ scenario = "loop" /\ loopState = "Idle" /\ result = NoResult
    /\ loopKind = "continuous_single_command_logging"
    /\ \E rail \in rail_mapping \cup {"TSP_IO"},
          command \in {"READ_VOUT", "STATUS_WORD", "READ_EFFICIENCY"} :
          /\ rail \notin rail_mapping \/ command \notin command_mapping
          /\ result' = [name |-> "continuous_single_command_logging",
                        value |-> FALSE, rail |-> rail, command |-> command]
    /\ loopState' = "Rejected"
    /\ UNCHANGED <<scenario, transport, clockVars, raw, vout_mode,
                   mode_fails, reading, arg, busVars, loopKind, allFail,
                   phase, todo, sample_count, error_count, attempts, rowErr,
                   lastRow, stopSignal, spin>>

\* the loop is left by break or by KeyboardInterrupt, the finally clause
\* prints its summary and the function returns
SingleCommandReturns ==
    /\ scenario = "loop" /\ loopState \in {"Completed", "Aborted"}
    /\ loopKind = "continuous_single_command_logging"
    /\ result = NoResult
    /\ result' = [name |-> "continuous_single_command_logging",
                  value |-> continuous_single_command_logging_return(loopState)]
    /\ UNCHANGED <<scenario, transport, clockVars, raw, vout_mode,
                   mode_fails, reading, arg, busVars, loopVars>>

InitLoop ==
    /\ scenario = "loop"
    /\ \E k \in LoopKinds : loopKind = k.kind /\ transport = k.transport
    /\ allFail \in BOOLEAN
    /\ devPage \in Pages
    /\ wirePage = NoPage
    /\ wireFresh = FALSE
    /\ lastOp = NoOp
    /\ busHung = FALSE
    /\ loopState = "Idle"
    /\ phase = "tick"
    /\ todo = <<>>
    /\ sample_count = 0
    /\ error_count = 0
    /\ attempts = 0
    /\ rowErr = FALSE
    /\ lastRow = "none"
    /\ stopSignal = FALSE
    /\ spin = 0
    /\ ClockIdle
    /\ CodecIdle

\* the steps the program takes by itself
LoopStep ==
    \/ StartLoop \/ TickBreak \/ TickAttempt \/ SubReadStep \/ Sleep
    \/ SampleLimit \/ Spin

NextLoop ==
    LoopStep \/ Interrupt \/ SingleCommandRejected \/ SingleCommandReturns

SpecLoop == InitLoop /\ [][NextLoop]_vars

\* the interpreter goes on running the loop; nothing makes an interrupt come
FairSpecLoop == InitLoop /\ [][NextLoop]_vars /\ WF_vars(LoopStep)

---------------------------------------------------------------------------
(* Properties of the sampling loops (SpecLoop, FairSpecLoop) *)

CeilingLoops == {"continuous_logging", "continuous_single_command_logging"}

\* C1: with a transport that fails every call, continuous_logging and
\* continuous_single_command_logging end, and when it is the errors that
\* end them they end Aborted after exactly 11 attempts, with 11 errors
\* counted and no sample.
C1_AllFailAbortsAfterEleven ==
    (scenario = "loop" /\ allFail /\ loopKind \in CeilingLoops
        /\ loopState = "Running")
    ~> (\/ loopState = "Completed"
        \/ /\ loopState = "Aborted"
           /\ attempts = ErrorCeiling + 1
           /\ error_count = ErrorCeiling + 1
           /\ sample_count = 0)

\* C2: whenever a sampling loop is about to read a register, its error
\* counter is at most the ceiling.
C2_NoReadAboveCeiling ==
    (LoopRunning /\ phase = "read") => error_count <= ErrorCeiling

\* C3: once the stop signal has been delivered the loop is Completed.
C3_StopCompletes ==
    (scenario = "loop" /\ stopSignal) => loopState = "Completed"

\* C4: no row written to the sink holds the entry of a failed sub-read.
C4_NoPartialSample ==
    scenario = "loop" => lastRow # "partial"

\* C15: a continuous loop that errors have stopped has counted more errors
\* than the ceiling: no loop stops on an individual read error.
C15_StopsOnlyAboveCeiling ==
    (scenario = "loop" /\ loopState = "Aborted") =>
        error_count > ErrorCeiling

---------------------------------------------------------------------------
(* Voltage command.  Voltages are in millivolts, VID steps are fractions   *)
(* of a millivolt, and the divisions are exact; int() cuts towards zero.   *)

\* int(a / b) for b > 0
PyInt(a, b) == IF a >= 0 THEN a \div b ELSE -((-a) \div b)

\* vid_step_table, in mV, entry code + 1 for code
vid_step_table ==
    <<[num |-> 25, den |-> 4], [num |-> 5, den |-> 1], [num |-> 5, den |-> 2],
      [num |-> 2, den |-> 1], [num |-> 1, den |-> 1], [num |-> 1, den |-> 256],
      [num |-> 1, den |-> 512], [num |-> 1, den |-> 1024]>>

\* "return 0.0009765625" when the read raises
DefaultVidStep == [num |-> 125, den |-> 128]

\* the step without the branch for code 7: the table entry as it is
vid_step_mv_table_only(page, vid_res_data) ==
    vid_step_table[((vid_res_data \div 1024) % 8) + 1]

\* the step Read_VID_Resolution gives for the word read, in mV:
\* vid_step_code = (vid_res_data >> 10) & 0x07, 1000.0 / 1024 for code 7
\* or for 0xFFFF on page 0, the table entry otherwise
vid_step_mv(page, vid_res_data) ==
    LET vid_step_code == (vid_res_data \div 1024) % 8 IN
    IF vid_step_code = 7 \/ (page = 0 /\ vid_res_data = 65535)
    THEN [num |-> 125, den |-> 128]
    ELSE vid_step_table[vid_step_code + 1]

\* the code without the upper clamp
vid_code_unclamped(mv, vid_step) ==
    LET vid == PyInt(mv * vid_step.den, vid_step.num) IN
    IF vid < 0 THEN 0 ELSE vid

\* vid_code = int(voltage / vid_step), set to 0 below 0 and to 0xFFF above
\* 0xFFF
vid_code(mv, vid_step) ==
    LET vid == PyInt(mv * vid_step.den, vid_step.num) IN
    IF vid < 0 THEN 0 ELSE IF vid > 4095 THEN 4095 ELSE vid

\* the exponent taken without its sign
parse_vout_mode_unsigned(vout_mode_byte) == vout_mode_byte % 32

\* exponent = mode & 0x1F, minus 32 when bit 4 is set
parse_vout_mode(vout_mode_byte) ==
    LET exponent == vout_mode_byte % 32 IN
    IF exponent >= 16 THEN exponent - 32 ELSE exponent

\* int(voltage / math.pow(2, exponent))
calculate_vout_command(mv, exponent) ==
    IF exponent < 0 THEN PyInt(mv * 2^(-exponent), 1000)
    ELSE PyInt(mv, 1000 * 2^exponent)

\* the bare "except:" (or "except Exception") around a read: a raise of
\* the read itself is dropped, one from before it stays
Swallow(before, after) ==
    IF before.st = "run" /\ after.st = "error"
    THEN [after EXCEPT !.st = "run"] ELSE after

Serial_Read_VOUT_MODE(b, page, rs) ==
    Serial_i2c_read16PMBus(
        Serial_i2c_write8PMBus(b, PMBusDict.PAGE, page, rs[1]),
        page, PMBusDict.VOUT_MODE, rs[2], rs[3])

\* rs: the driver's answers to the five calls
Serial_Read_Vout(b, page, rs) ==
    LET d == Serial_i2c_read16PMBus(b, page, PMBusDict.READ_VOUT, rs[1], rs[2])
    IN  Swallow(d, Serial_Read_VOUT_MODE(d, page, <<rs[3], rs[4], rs[5]>>))

\* the context after the read and the step it gives, code being bits
\* 12:10 of the register
Serial_Read_VID_Resolution(b, page, code, r1, r2) ==
    LET o == Serial_i2c_read16PMBus(b, page, PMBusDict.MFR_VID_RES_R1, r1, r2)
    IN  [b    |-> Swallow(b, o),
         step |-> IF b.st = "run" /\ o.st = "error" THEN DefaultVidStep
                  ELSE vid_step_mv(page, code * 1024)]

\* rs: the driver's answers to the six calls
Serial_Write_Vout_Command(b, page, mv, code, rs) ==
    LET b1  == Serial_i2c_write8PMBus(b, PMBusDict.PAGE, page, rs[1])
        b2  == Serial_i2c_write8PMBus(b1, PMBusDict.OPERATION, 128, rs[2])
        v   == Serial_Read_VID_Resolution(b2, page, code, rs[3], rs[4])
        raw_value == vid_code(mv, v.step) % 4096
    IN  Serial_i2c_write16PMBus(v.b, page, PMBusDict.VOUT_COMMAND, raw_value,
                                rs[5], rs[6])

\* PMBusCommands.Write_Vout_Command over PCIe; mode is the VOUT_MODE byte,
\* rs the tool's answers to the four commands
PCIe_Write_Vout_Command(b, page, mv, mode, rs) ==
    LET m == PCIe_i2c_read16PMBus(b, page, PMBusDict.VOUT_MODE, rs[1], rs[2])
        exponent == IF m.st = "error" \/ parse_vout_mode(mode) = 0 THEN -10
                    ELSE parse_vout_mode(mode)
        mantissa == calculate_vout_command(mv, exponent)
    IN  PCIe_i2c_write16PMBus(Swallow(b, m), page, PMBusDict.VOUT_COMMAND,
                              mantissa, rs[3], rs[4])

\* target voltages, in mV
Voltages == {-500, 0, 299, 300, 800, 3300, 3301, 4000, 5000}
\* bits 12:10 of MFR_VID_RES_R1
VidStepCodes == 0..7
\* VOUT_MODE bytes: exponents 0, -12, -10 and -9
VoutModes == {0, 20, 22, 23}

VoutEntryPoints ==
    { [name |-> "execute_vout_command", transport |-> "serial"],
      [name |-> "Write_Vout_Command", transport |-> "serial"],
      [name |-> "main_VOUT_COMMAND", transport |-> "pcie"] }

\* the answers of the transport to the n calls of a step, those at the
\* positions in reads being reads: it does the call or raises
VoutWriteAnswers(t) == IF t = "serial" THEN {"ok", "exc"} ELSE {"rc0", "rcfail"}
VoutReadAnswers(t) == IF t = "serial" THEN {"word", "exc"} ELSE {"len2", "rcfail"}
VoutAnswers(t, n, reads) ==
    { rs \in [1..n -> VoutWriteAnswers(t) \cup VoutReadAnswers(t)] :
        \A i \in 1..n :
            rs[i] \in IF i \in reads THEN VoutReadAnswers(t)
                      ELSE VoutWriteAnswers(t) }

VoutRunning(ph) == scenario = "vout" /\ phase = ph

\* the wire of the command so far, with the bus as it is
VoutHere == [Here EXCEPT !.wire = lastOp.wire]

\* the command goes on to position ph, or is over with result st
VoutGoes(b, ph, st) ==
    /\ lastOp' = [lastOp EXCEPT !.wire = b.wire, !.st = st]
    /\ phase' = ph
    /\ devPage' = b.dev
    /\ wirePage' = b.wp
    /\ wireFresh' = b.fresh
    /\ UNCHANGED <<scenario, transport, clockVars, codecVars,
                   busHung, loopKind, allFail, loopState,
                   todo, sample_count, error_count, attempts, rowErr, lastRow,
                   stopSignal, spin>>

\* a voltage command is called
VoutCall ==
    /\ VoutRunning("idle")
    /\ \E e \in VoutEntryPoints, page \in Pages, mv \in Voltages :
          /\ e.transport = transport
          /\ lastOp' = [name |-> e.name, page |-> page, arg |-> mv,
                        st |-> "run", ret |-> NoRet, wire |-> <<>>,
                        prevDev |-> devPage]
          /\ phase' = IF e.name = "execute_vout_command" THEN "check"
                      ELSE "write"
    /\ UNCHANGED <<scenario, transport, clockVars, codecVars,
                   devPage, wirePage, wireFresh, busHung,
                   loopRest>>

\* "if voltage < 0.3 or voltage > 3.3: return False"
VoutRangeCheck ==
    /\ VoutRunning("check")
    /\ IF lastOp.arg < 300 \/ lastOp.arg > 3300
       THEN VoutGoes(VoutHere, "done", "False")
       ELSE VoutGoes(VoutHere, "read_before", "run")

\* "current_voltage = powertool.Read_Vout(page)"
VoutReadBefore ==
    /\ VoutRunning("read_before")
    /\ \E rs \in VoutAnswers("serial", 5, {2, 5}) :
          LET b == Serial_Read_Vout(VoutHere, lastOp.page, rs) IN
          IF b.st = "error" THEN VoutGoes(b, "done", "False")
          ELSE VoutGoes(b, "write", "run")

\* PowerToolI2C.Write_Vout_Command
VoutWriteSerial ==
    /\ VoutRunning("write") /\ transport = "serial"
    /\ \E rs \in VoutAnswers("serial", 6, {4}), code \in VidStepCodes :
          LET b == Serial_Write_Vout_Command(VoutHere, lastOp.page,
                                             lastOp.arg, code, rs)
          IN  IF b.st = "error" THEN VoutGoes(b, "done", "False")
              ELSE IF lastOp.name = "execute_vout_command"
              THEN VoutGoes(b, "read_back", "run")
              ELSE VoutGoes(b, "done", "True")

\* "pt.Write_Vout_Command(page, args.value)" in main, which returns 0, or
\* 1 when it raised
VoutWritePCIe ==
    /\ VoutRunning("write") /\ transport = "pcie"
    /\ \E rs \in VoutAnswers("pcie", 4, {2}), mode \in VoutModes :
          LET b == PCIe_Write_Vout_Command(VoutHere, lastOp.page,
                                           lastOp.arg, mode, rs)
          IN  VoutGoes(b, "done", IF b.st = "error" THEN "1" ELSE "0")

\* "final_voltage = powertool.Read_Vout(page)" after time.sleep(2.0)
VoutReadBack ==
    /\ VoutRunning("read_back")
    /\ \E rs \in VoutAnswers("serial", 5, {2, 5}) :
          LET b == Serial_Read_Vout(VoutHere, lastOp.page, rs) IN
          VoutGoes(b, "done", IF b.st = "error" THEN "False" ELSE "True")

\* the program is run again
VoutAgain ==
    /\ VoutRunning("done")
    /\ VoutGoes([VoutHere EXCEPT !.wire = <<>>], "idle", "done")

InitVout ==
    /\ scenario = "vout"
    /\ transport \in {"serial", "pcie"}
    /\ devPage \in Pages
    /\ wirePage = NoPage
    /\ wireFresh = FALSE
    /\ lastOp = NoOp
    /\ busHung = FALSE
    /\ loopKind = "none" /\ allFail = FALSE /\ loopState = "Idle"
    /\ phase = "idle" /\ todo = <<>> /\ sample_count = 0 /\ error_count = 0
    /\ attempts = 0 /\ rowErr = FALSE /\ lastRow = "none"
    /\ stopSignal = FALSE
    /\ spin = 0
    /\ ClockIdle
    /\ CodecIdle

NextVout ==
    \/ VoutCall \/ VoutRangeCheck \/ VoutReadBefore \/ VoutWriteSerial
    \/ VoutWritePCIe \/ VoutReadBack \/ VoutAgain

SpecVout == InitVout /\ [][NextVout]_vars

---------------------------------------------------------------------------
(* Properties of the voltage command (SpecVout) *)

VoutDone ==
    /\ scenario = "vout" /\ phase = "done"
    /\ lastOp.name \in {e.name : e \in VoutEntryPoints}

OutOfRange(mv) == mv < 300 \/ mv > 3300

\* C9: a voltage command for a target outside 0.3 V .. 3.3 V ends rejected
\* and has put nothing on the bus.
C9_OutOfRangeTouchesNoBus ==
    (VoutDone /\ OutOfRange(lastOp.arg)) =>
        /\ lastOp.wire = <<>>
        /\ lastOp.st \in {"False", "1"}

\* C10: every value a voltage command writes to VOUT_COMMAND is in 0..0xFFF.
C10_VoutCommandTwelveBits ==
    scenario = "vout" =>
        \A i \in DOMAIN lastOp.wire :
            (lastOp.wire[i].k = "w"
                /\ lastOp.wire[i].reg = PMBusDict.VOUT_COMMAND) =>
                lastOp.wire[i].val \in 0..4095

\* the access is a read of MFR_VID_RES_R1 that the transport failed
VidReadFailed(a) ==
    a.k = "r" /\ a.reg = PMBusDict.MFR_VID_RES_R1 /\ ~a.ok

IsWriteOf(a, reg) == a.k = "w" /\ a.reg = reg

\* C11: when the read of MFR_VID_RES_R1 fails in a voltage command, no
\* write of VOUT_COMMAND follows it and the command ends as a failure.
C11_VidReadFailureStopsWrite ==
    (scenario = "vout" /\ transport = "serial") =>
        \A i \in DOMAIN lastOp.wire :
            VidReadFailed(lastOp.wire[i]) =>
                /\ \A j \in DOMAIN lastOp.wire :
                      j > i => ~IsWriteOf(lastOp.wire[j], PMBusDict.VOUT_COMMAND)
                /\ phase = "done" => lastOp.st = "False"

\* C12: PowerToolI2C.Write_Vout_Command writes no register but PAGE and
\* VOUT_COMMAND, VOUT_COMMAND at most once, and reads no register but
\* MFR_VID_RES_R1.
C12_VoutCommandBusSteps ==
    (scenario = "vout" /\ lastOp.name = "Write_Vout_Command") =>
        /\ \A i \in DOMAIN lastOp.wire :
              IF lastOp.wire[i].k = "r"
              THEN lastOp.wire[i].reg = PMBusDict.MFR_VID_RES_R1
              ELSE lastOp.wire[i].reg \in {PMBusDict.PAGE,
                                           PMBusDict.VOUT_COMMAND}
        /\ Cardinality({i \in DOMAIN lastOp.wire :
                           IsWriteOf(lastOp.wire[i], PMBusDict.VOUT_COMMAND)})
              <= 1

---------------------------------------------------------------------------
(* The pace of the sampling loops.  Time is counted in units since         *)
(* start_time; an attempt is one step here: it takes some time, and its    *)
(* reads are done or one of them raises.                                   *)

\* the duration and the interval the loop is called with, and the longest
\* an attempt takes
total_duration == 6
sample_interval == 2
MaxTook == 3

TimedRunning(ph) ==
    scenario = "timed" /\ loopState = "Running" /\ phase = ph

\* "if current_time > total_duration" in place of the test of the code
DurationOverLate(current_time) == current_time > total_duration

\* "if current_time >= total_duration"
DurationOver(current_time) == current_time >= total_duration

\* "start_time = time.time(); sample_count = 0; error_count = 0"
TimedStart ==
    /\ scenario = "timed" /\ loopState = "Idle"
    /\ Goes("tick", <<>>, 0, 0, FALSE, lastRow)
    /\ UNCHANGED <<scenario, transport, clockVars, codecVars, busVars,
                   loopKind, allFail, attempts, stopSignal, spin>>

\* the top of the loop body: "loop_start = time.time()", the test of the
\* duration, and the attempt begins ("sample_num += 1" over PCIe)
TimedTick ==
    /\ TimedRunning("tick")
    /\ loop_start' = now
    /\ IF loopKind \in DurationLoops /\ DurationOver(now)
       THEN Ends("Completed", error_count) /\ attempts' = attempts
       ELSE /\ attempts < MaxAttempts
            /\ attempts' = attempts + 1
            /\ Goes("read", <<>>,
                    IF IsPCIe THEN sample_count + 1 ELSE sample_count,
                    error_count, FALSE, lastRow)
    /\ UNCHANGED <<scenario, transport, codecVars, busVars, loopKind,
                   allFail, stopSignal, spin, now, loop_time, slept, warned>>

\* the reads of the attempt and its row, took units of time long
TimedAttempt ==
    /\ TimedRunning("read")
    /\ \E took \in 0..MaxTook, ok \in BOOLEAN :
          /\ now' = now + took
          /\ IF ok THEN Advance(<<>>, error_count, FALSE)
             ELSE IF loopKind \in CeilingLoops THEN AttemptFailed
             ELSE CommandFailed(<<>>, 1)
    /\ UNCHANGED <<scenario, transport, codecVars, busVars, loopKind,
                   allFail, attempts, stopSignal, spin, loop_start,
                   loop_time, slept, warned>>

\* "sleep_time = sample_interval - loop_time", the sleep and the warning;
\* the multi-command loop has no warning, the PCIe loop does
\* "time.sleep(args.interval)"
TimedSleep ==
    /\ TimedRunning("sleep")
    /\ LET sleep_time == sample_interval - (now - loop_start)
           length == IF IsPCIe THEN sample_interval
                     ELSE IF sleep_time > 0 THEN sleep_time ELSE 0
       IN  /\ loop_time' = now - loop_start
           /\ slept' = length
           /\ now' = now + length
           /\ warned' = (loopKind \in CeilingLoops /\ sleep_time < 0)
    /\ Goes("tick", <<>>, sample_count, error_count, rowErr, lastRow)
    /\ UNCHANGED <<scenario, transport, codecVars, busVars, loopKind,
                   allFail, attempts, stopSignal, spin, loop_start>>

InitTimed ==
    /\ scenario = "timed"
    /\ \E k \in LoopKinds :
          /\ k.kind \in DurationLoops \cup {"pcie_log"}
          /\ k.transport # "aardvark"
          /\ loopKind = k.kind /\ transport = k.transport
    /\ devPage \in Pages
    /\ wirePage = NoPage
    /\ wireFresh = FALSE
    /\ lastOp = NoOp
    /\ busHung = FALSE
    /\ allFail = FALSE /\ loopState = "Idle"
    /\ phase = "tick" /\ todo = <<>> /\ sample_count = 0 /\ error_count = 0
    /\ attempts = 0 /\ rowErr = FALSE /\ lastRow = "none"
    /\ stopSignal = FALSE
    /\ spin = 0
    /\ ClockIdle
    /\ CodecIdle

NextTimed == TimedStart \/ TimedTick \/ TimedAttempt \/ TimedSleep

SpecTimed == InitTimed /\ [][NextTimed]_vars

---------------------------------------------------------------------------
(* Properties of the pace of the loops (SpecTimed) *)

\* C13: the sample number never runs ahead of the attempts, and an attempt
\* that took longer than the interval is followed by the latency warning
\* and a sleep of length zero.
C13_OneSamplePerAttempt ==
    scenario = "timed" =>
        /\ sample_count <= attempts
        /\ loop_time > sample_interval => (warned /\ slept = 0)

\* C14: in a loop that runs for a duration, an attempt is in progress only
\* when its tick began before the duration was over, and the loop is
\* Completed only by a tick that began at or after the duration.
C14_NoAttemptPastDuration ==
    (scenario = "timed" /\ loopKind \in DurationLoops) =>
        /\ (loopState = "Running" /\ phase \in {"read", "sleep"}) =>
              loop_start < total_duration
        /\ loopState = "Completed" => loop_start >= total_duration

\* a loop that has written rows was ended by a tick that began after an
\* attempt had run over the end of the duration
C14_Witness ==
    /\ scenario = "timed" /\ loopKind \in DurationLoops
    /\ loopState = "Completed"
    /\ loop_start > total_duration
    /\ sample_count > 0

---------------------------------------------------------------------------
(* Single-shot invocations: execute_single_command and                     *)
(* execute_multiple_commands over the serial tunnel, and the single read   *)
(* mode of the PCIe tool.  The serial ones read each register once more    *)
(* for the display of the raw value.                                       *)

ShotEntryPoints ==
    { [name |-> "execute_single_command", transport |-> "serial"],
      [name |-> "execute_multiple_commands", transport |-> "serial"],
      [name |-> "main_single_read", transport |-> "pcie"] }

\* the register reads of the invocation: READ_VOUT alone, READ_VOUT and
\* READ_IOUT, READ_VOUT and STATUS_WORD
ShotPlan(name, page) ==
    CASE name = "execute_single_command" ->
            Read_Vout(page, "attempt", 1, TRUE)
            \o << Step(FALSE, page, PMBusDict.READ_VOUT, "attempt", 1) >>
      [] name = "execute_multiple_commands" ->
            Read_Vout(page, "command", 1, TRUE)
            \o << Step(FALSE, page, PMBusDict.READ_VOUT, "command", 1) >>
            \o Read_Iout(page, "command", 2) \o Read_Iout(page, "command", 2)
      [] name = "main_single_read" ->
            Read_Vout(page, "command", 1, FALSE)
            \o Read_Status_Word(page, "command", 2)

\* the transport does a call or raises
ShotAnswers(t) ==
    [w0 : IF t = "pcie" THEN {"rc0"} ELSE VoutWriteAnswers(t),
     w1 : VoutWriteAnswers(t),
     r  : VoutReadAnswers(t)]

\* the invocation goes on with rest to read, or is over: "return False" of
\* the outer handler, "return True", or "return 0" of the PCIe tool
ShotGoes(b, rest, failed, raised) ==
    /\ lastOp' = [lastOp EXCEPT
                     !.wire = b.wire,
                     !.st = IF raised THEN "False"
                            ELSE IF rest # <<>> THEN "run"
                            ELSE IF transport = "pcie" THEN "0" ELSE "True"]
    /\ phase' = IF raised \/ rest = <<>> THEN "done" ELSE "run"
    /\ todo' = IF raised THEN <<>> ELSE rest
    /\ rowErr' = failed
    /\ devPage' = b.dev
    /\ wirePage' = b.wp
    /\ wireFresh' = b.fresh

ShotCall ==
    /\ scenario = "shot" /\ phase = "idle"
    /\ \E e \in ShotEntryPoints, page \in Pages :
          /\ e.transport = transport
          /\ lastOp' = [name |-> e.name, page |-> page, arg |-> 0,
                        st |-> "run", ret |-> NoRet, wire |-> <<>>,
                        prevDev |-> devPage]
          /\ todo' = ShotPlan(e.name, page)
    /\ phase' = "run"
    /\ UNCHANGED <<scenario, transport, clockVars, codecVars, devPage,
                   wirePage, wireFresh, busHung, loopKind, allFail,
                   loopState, sample_count, error_count, attempts, rowErr,
                   lastRow, stopSignal, spin>>

\* one register read of the invocation
ShotStep ==
    /\ scenario = "shot" /\ phase = "run"
    /\ \E a \in ShotAnswers(transport) :
          LET s == Head(todo)
              o == SubRead(transport, VoutHere, s, a)
          IN  CASE o.st = "run" \/ s.scope = "bare" ->
                      ShotGoes(o, Tail(todo), rowErr, FALSE)
                [] o.st = "error" /\ s.scope = "command" ->
                      ShotGoes(o, SkipCommand(Tail(todo), s.cmd), TRUE,
                               FALSE)
                [] o.st = "error" /\ s.scope = "attempt" ->
                      ShotGoes(o, <<>>, TRUE, TRUE)
    /\ UNCHANGED <<scenario, transport, clockVars, codecVars, busHung,
                   loopKind, allFail, loopState, sample_count, error_count,
                   attempts, lastRow, stopSignal, spin>>

InitShot ==
    /\ scenario = "shot"
    /\ transport \in {"serial", "pcie"}
    /\ devPage \in Pages
    /\ wirePage = NoPage
    /\ wireFresh = FALSE
    /\ lastOp = NoOp
    /\ busHung = FALSE
    /\ loopKind = "none" /\ allFail = FALSE /\ loopState = "Idle"
    /\ phase = "idle" /\ todo = <<>> /\ sample_count = 0 /\ error_count = 0
    /\ attempts = 0 /\ rowErr = FALSE /\ lastRow = "none"
    /\ stopSignal = FALSE
    /\ spin = 0
    /\ ClockIdle
    /\ CodecIdle

NextShot == ShotCall \/ ShotStep

SpecShot == InitShot /\ [][NextShot]_vars

---------------------------------------------------------------------------
(* Properties of the single-shot invocations (SpecShot) *)

\* C16: a register access that failed is the last access of a single-shot
\* invocation, and the invocation then reports failure.
C16_FirstErrorStops ==
    scenario = "shot" =>
        \A i \in DOMAIN lastOp.wire :
            ~lastOp.wire[i].ok =>
                /\ i = Len(lastOp.wire)
                /\ phase = "done" => lastOp.st \in {"False", "1"}

---------------------------------------------------------------------------
(* Telemetry decoding.  A reading is kept as its mantissa and exponent:    *)
(* the value the code returns is mantissa * 2^exponent.  The register      *)
(* gives the word raw; VOUT_MODE gives the byte vout_mode, or its read     *)
(* raises (mode_fails).                                                    *)

\* "if (val & (1 << (bits - 1))) != 0: val = val - (1 << bits)"
twos_comp(val, bits) ==
    IF (val \div (2^(bits - 1))) % 2 = 1 THEN val - (2^bits) ELSE val

\* the mantissa taken without its sign
parse_linear11_unsigned(data) ==
    LET exponent == (data \div 2048) % 32 IN
    [mantissa |-> data % 2048,
     exponent |-> IF exponent >= 16 THEN exponent - 32 ELSE exponent]

\* exponent = (data >> 11) & 0x1F, mantissa = data & 0x7FF, each minus
\* 32 / 2048 when its top bit is set
parse_linear11(data) ==
    LET exponent == (data \div 2048) % 32
        mantissa == data % 2048
    IN  [mantissa |-> IF (mantissa \div 1024) % 2 = 1 THEN mantissa - 2048
                      ELSE mantissa,
         exponent |-> IF (exponent \div 16) % 2 = 1 THEN exponent - 32
                      ELSE exponent]

\* PowerToolI2C.Read_Iout: twos_comp for the exponent, "mantissa_raw -
\* 0x800" when bit 10 is set
PowerToolI2C_Read_Iout(data) ==
    LET exponent_raw == (data \div 2048) % 32
        mantissa_raw == data % 2048
    IN  [mantissa |-> IF (mantissa_raw \div 1024) % 2 = 1
                      THEN mantissa_raw - 2048 ELSE mantissa_raw,
         exponent |-> twos_comp(exponent_raw, 5)]

\* Read_Iout_Rail1, Read_Iout_Rail2 and their _Raw variants:
\* "mantissa = data & 0x7FF" as it is
PowerToolI2C_Read_Iout_Rail(data) ==
    [mantissa |-> data % 2048,
     exponent |-> twos_comp((data \div 2048) % 32, 5)]

\* Read_Temp, Read_PIN, Read_POUT, Read_IIN, Read_IOUT_Peak, Read_Peak_Temp:
\* "exponent = data >> 11; mantissa = data & 0x7ff"
PowerToolI2C_Read_Temp(data) ==
    [mantissa |-> data % 2048, exponent |-> twos_comp(data \div 2048, 5)]

\* data * math.pow(2, exponent)
parse_linear16(data, exponent) ==
    [mantissa |-> data, exponent |-> exponent]

\* PMBusCommands.Read_Vout
PMBusCommands_Read_Vout(data, mode, fails) ==
    parse_linear16(data,
                   IF fails \/ parse_vout_mode(mode) = 0 THEN -10
                   ELSE parse_vout_mode(mode))

\* PowerToolI2C.Read_Vout, Read_Vout_Rail1, Read_Vout_Rail2 and their _Raw
\* variants: the exponent of Read_VOUT_MODE as it is, -10 when it raises
PowerToolI2C_Read_Vout(data, mode, fails) ==
    parse_linear16(data, IF fails THEN -10 ELSE parse_vout_mode(mode))

convert_vout(raw_value, vout_mode_byte) ==
    parse_linear16(raw_value,
                   IF parse_vout_mode(vout_mode_byte) = 0 THEN -10
                   ELSE parse_vout_mode(vout_mode_byte))

\* READ_VOUT words the VOUT paths are tried with
VoutWords == {0, 1, 10752, 32768, 65535}

\* the path decodes the word
Decoded(path, r) ==
    /\ reading = NoReading
    /\ reading' = [path |-> path, mantissa |-> r.mantissa,
                   exponent |-> r.exponent]
    /\ UNCHANGED <<scenario, transport, clockVars, raw, vout_mode,
                   mode_fails, arg, result, busVars, loopVars>>

PCIeReadIout ==
    /\ scenario = "codec"
    /\ Decoded("PMBusCommands.Read_Iout", parse_linear11(raw))

SerialReadIout ==
    /\ scenario = "codec"
    /\ Decoded("PowerToolI2C.Read_Iout", PowerToolI2C_Read_Iout(raw))

SerialReadIoutRail ==
    /\ scenario = "codec"
    /\ Decoded("PowerToolI2C.Read_Iout_Rail1", PowerToolI2C_Read_Iout_Rail(raw))

SerialReadTemp ==
    /\ scenario = "codec"
    /\ Decoded("PowerToolI2C.Read_Temp", PowerToolI2C_Read_Temp(raw))

PCIeReadVout ==
    /\ scenario = "codec"
    /\ Decoded("PMBusCommands.Read_Vout",
               PMBusCommands_Read_Vout(raw, vout_mode, mode_fails))

SerialReadVout ==
    /\ scenario = "codec"
    /\ Decoded("PowerToolI2C.Read_Vout",
               PowerToolI2C_Read_Vout(raw, vout_mode, mode_fails))

ConvertVout ==
    /\ scenario = "codec" /\ ~mode_fails
    /\ Decoded("convert_vout", convert_vout(raw, vout_mode))

\* every word with VOUT_MODE read as 0, and the words of VoutWords with
\* every VOUT_MODE byte and with a VOUT_MODE that cannot be read
InitCodec ==
    /\ scenario = "codec"
    /\ transport \in {"serial"}
    /\ \/ raw \in 0..65535 /\ vout_mode = 0 /\ mode_fails = FALSE
       \/ raw \in VoutWords /\ vout_mode \in 0..255 /\ mode_fails \in BOOLEAN
    /\ reading = NoReading
    /\ arg = 0 /\ result = NoResult
    /\ devPage = 0
    /\ wirePage = NoPage
    /\ wireFresh = FALSE
    /\ lastOp = NoOp
    /\ busHung = FALSE
    /\ LoopIdle
    /\ ClockIdle

NextCodec ==
    \/ PCIeReadIout \/ SerialReadIout \/ SerialReadIoutRail \/ SerialReadTemp
    \/ PCIeReadVout \/ SerialReadVout \/ ConvertVout

SpecCodec == InitCodec /\ [][NextCodec]_vars

---------------------------------------------------------------------------
(* Properties of the decoding (SpecCodec) *)

VoutPaths ==
    {"PMBusCommands.Read_Vout", "PowerToolI2C.Read_Vout", "convert_vout"}
Linear11Paths ==
    {"PMBusCommands.Read_Iout", "PowerToolI2C.Read_Iout",
     "PowerToolI2C.Read_Iout_Rail1", "PowerToolI2C.Read_Temp"}

\* the number the low bits of v stand for in two's complement
TwosComplement(v, bits) ==
    LET low == v % (2^bits) IN
    IF low >= 2^(bits - 1) THEN low - 2^bits ELSE low

\* e in bits 15:11 and m in bits 10:0, both in two's complement
Pack(m, e) == ((e % 32) * 2048) + (m % 2048)

\* C17: a VOUT reading is scaled with exponent -10 whenever VOUT_MODE could
\* not be read or decodes to exponent 0; it is never scaled with 0.
C17_ZeroExponentFallsBack ==
    (scenario = "codec" /\ reading.path \in VoutPaths) =>
        /\ (mode_fails \/ TwosComplement(vout_mode, 5) = 0) =>
              reading.exponent = -10
        /\ reading.exponent # 0

C19_Linear11SamePair ==
    (scenario = "codec" /\ reading.path \in Linear11Paths) =>
        /\ reading.exponent = TwosComplement(raw \div 2048, 5)
        /\ reading.mantissa = TwosComplement(raw, 11)
        /\ reading.mantissa = parse_linear11(raw).mantissa
        /\ reading.exponent = parse_linear11(raw).exponent

\* C20: parse_linear11 gives a mantissa in -1024..1023 and an exponent in
\* -16..15 that pack to the very word they were decoded from, so that the
\* 65536 words and the 65536 pairs correspond one to one.
C20_Linear11RoundTrip ==
    (scenario = "codec" /\ reading.path = "PMBusCommands.Read_Iout") =>
        /\ reading.mantissa \in -1024..1023
        /\ reading.exponent \in -16..15
        /\ Pack(reading.mantissa, reading.exponent) = raw
        /\ parse_linear11(Pack(reading.mantissa, reading.exponent)) =
              [mantissa |-> reading.mantissa, exponent |-> reading.exponent]

\* a word with both sign bits set is decoded by parse_linear11
C20_Witness ==
    /\ scenario = "codec" /\ reading.path = "PMBusCommands.Read_Iout"
    /\ reading.mantissa < 0 /\ reading.exponent < 0
    /\ raw = Pack(-1, -16)

---------------------------------------------------------------------------
(* Computations on register words.  A computation is called with the word  *)
(* raw a register gave and the number arg, and leaves what it computed in  *)
(* result.                                                                  *)

\* words tried with every number of CalcArgs: each value of bits 12:10 and
\* of bits 2:0, and an unset register
CalcWords == {k * 1024 : k \in 0..7} \cup (0..7) \cup {65535}
\* voltages in mV and current limits in A
CalcArgs == (-50..4200) \cup {-1000000, -500, 25593, 25594, 25600, 1000000}

CalcReady == scenario = "calc" /\ result = NoResult

\* the computation leaves r
Computed(r) ==
    /\ result' = r
    /\ UNCHANGED <<scenario, transport, clockVars, raw, vout_mode,
                   mode_fails, reading, arg, busVars, loopVars>>

\* vid_step = self.Read_VID_Resolution(page), the read giving raw
ReadVIDResolution ==
    /\ CalcReady
    /\ \E page \in Pages :
          Computed([name |-> "Read_VID_Resolution", page |-> page,
                    vid_step |-> vid_step_mv(page, raw)])

\* Write_Vout_Command(page, voltage) up to the value it writes, the read
\* of MFR_VID_RES_R1 giving raw
WriteVoutCommandCode ==
    /\ CalcReady
    /\ \E page \in Pages :
          LET vid_step == vid_step_mv(page, raw) IN
          Computed([name |-> "Write_Vout_Command", page |-> page,
                    vid_step |-> vid_step,
                    vid_code |-> vid_code(arg, vid_step),
                    raw_value |-> vid_code(arg, vid_step) % 4096])

\* bit_defs of decode_status_word: the name of bit i is bit_defs[i + 1]
bit_defs ==
    <<"OTHER_FAULT", "CML", "TEMPERATURE", "VIN_UV_FAULT", "IOUT_OC_FAULT",
      "VOUT_OV_FAULT", "OFF", "NVM_BUSY", "WATCH_DOG_OVF", "RESERVED_9",
      "RESERVED_10", "POWER_GOOD_N", "MFR_SPECIFIC", "INPUT", "IOUT", "VOUT">>

\* the decoding of the low byte alone
decode_status_byte(status_word) ==
    [bit_name \in {bit_defs[i] : i \in 1..16} |->
        LET bit_num == CHOOSE i \in 0..15 : bit_defs[i + 1] = bit_name
        IN  IF bit_num < 8 THEN (status_word \div (2^bit_num)) % 2 ELSE 0]

\* decoded['bits'][bit_name]['value'] = (status_word >> bit_num) & 1 for
\* each entry of bit_defs
decode_status_word(status_word) ==
    [bit_name \in {bit_defs[i] : i \in 1..16} |->
        LET bit_num == CHOOSE i \in 0..15 : bit_defs[i + 1] = bit_name
        IN  (status_word \div (2^bit_num)) % 2]

\* [name for name, info in decoded['bits'].items() if info['active'] and
\*  name not in ['RESERVED_9', 'RESERVED_10']]
active_faults(decoded) ==
    {name \in DOMAIN decoded :
        decoded[name] = 1 /\ name \notin {"RESERVED_9", "RESERVED_10"}}

\* decode_status_word(status) and the active faults main and
\* format_status_word take from it, status being raw
DecodeStatusWord ==
    /\ CalcReady
    /\ Computed([name |-> "decode_status_word",
                 bits |-> decode_status_word(raw),
                 active |-> active_faults(decode_status_word(raw))])

\* the bytes joined in the order they came in
RECURSIVE byteArrayToBigEndian(_)
byteArrayToBigEndian(data_array) ==
    IF data_array = <<>> THEN 0
    ELSE byteArrayToBigEndian(SubSeq(data_array, 1, Len(data_array) - 1))
             * 256 + data_array[Len(data_array)]

\* data_array.reverse(); int(''.join('%02x' % x for x in data_array), 16):
\* the last byte of the array comes first in the number
RECURSIVE byteArrayToLittleEndian(_)
byteArrayToLittleEndian(data_array) ==
    IF data_array = <<>> THEN 0
    ELSE byteArrayToLittleEndian(Tail(data_array)) * 256 + Head(data_array)

\* "for i, byte_val in enumerate(data): value |= (byte_val << (i * 8))"
\* of PowerToolPCIe.i2c_read_bytes, for bytes 0..255
RECURSIVE i2c_read_bytes_value(_, _)
i2c_read_bytes_value(data, i) ==
    IF i > Len(data) THEN 0
    ELSE data[i] * (256^(i - 1)) + i2c_read_bytes_value(data, i + 1)

\* the word raw goes out as setIndirectDataBuffer2 splits it and the
\* Aardvark read path puts the same bytes together
AardvarkWord ==
    /\ CalcReady
    /\ Computed([name |-> "byteArrayToLittleEndian",
                 bytes |-> setIndirectDataBuffer2(raw),
                 value |-> byteArrayToLittleEndian(setIndirectDataBuffer2(raw))])

\* the PCIe read path puts the same wire bytes together
PCIeWord ==
    /\ CalcReady
    /\ Computed([name |-> "i2c_read_bytes",
                 bytes |-> setIndirectDataBuffer2(raw),
                 value |-> i2c_read_bytes_value(setIndirectDataBuffer2(raw), 1)])

\* PMBusCommands.Write_IOUT_OC_WARN_LIMIT over PCIe with a tool that does
\* every command: Read_IOUT_Scale reads MFR_VR_CONFIG, which gives
\* mfr_vr_config; limit_raw = int(limit_amps / lsb)
PMBusCommands_Write_IOUT_OC_WARN_LIMIT(b, page, limit_amps, mfr_vr_config) ==
    LET s == PCIe_i2c_read16PMBus(b, page, PMBusDict.MFR_VR_CONFIG,
                                  "rc0", "len2")
        iout_scale == mfr_vr_config % 8
        lsb == 8 * iout_scale
    IN  IF lsb = 0 THEN Raise(s)
        ELSE IF PyInt(limit_amps, lsb) > 255 THEN Raise(s)
        ELSE PCIe_i2c_write16PMBus(s, page, PMBusDict.IOUT_OC_WARN_LIMIT,
                                   PyInt(limit_amps, lsb), "rc0", "rc0")

\* pt.Write_IOUT_OC_WARN_LIMIT(page, args.value)
WriteIoutOcWarnLimit ==
    /\ CalcReady
    /\ \E page \in Pages :
          LET b == PMBusCommands_Write_IOUT_OC_WARN_LIMIT(
                       Ctx(devPage, wirePage, wireFresh), page, arg, raw)
          IN  Computed([name |-> "Write_IOUT_OC_WARN_LIMIT", page |-> page,
                        st |-> b.st, wire |-> b.wire])

\* "Status_byte = self.i2c_read16PMBus(page, PMBusDict["STATUS_BYTE"])" of
\* get_telemetry and Sugarloaf_Telemetry; STATUS_VOUT, STATUS_IOUT,
\* STATUS_INPUT, STATUS_TEMPERATURE and STATUS_MFR_SPECIFIC are read the
\* same way
get_telemetry_status(word) == word

\* "(self.i2c_read16PMBus(page, PMBusDict["STATUS_BYTE"]))&0x00FF" of
\* get_telemetry_basic and Sugarloaf_Telemetry_wo_phases
get_telemetry_basic_status(word) == word % 256

\* the status fields of get_telemetry, each register giving raw
GetTelemetry ==
    /\ CalcReady
    /\ Computed([name |-> "get_telemetry",
                 status |-> get_telemetry_status(raw)])

\* the status fields of get_telemetry_basic, each register giving raw
GetTelemetryBasic ==
    /\ CalcReady
    /\ Computed([name |-> "get_telemetry_basic",
                 status |-> get_telemetry_basic_status(raw)])

\* every word with one number, and the words of CalcWords with every
\* number of CalcArgs
InitCalc ==
    /\ scenario = "calc"
    /\ transport = "serial"
    /\ \/ raw \in 0..65535 /\ arg = 600
       \/ raw \in CalcWords /\ arg \in CalcArgs
    /\ vout_mode = 0 /\ mode_fails = FALSE /\ reading = NoReading
    /\ result = NoResult
    /\ devPage = 0
    /\ wirePage = NoPage
    /\ wireFresh = FALSE
    /\ lastOp = NoOp
    /\ busHung = FALSE
    /\ LoopIdle
    /\ ClockIdle

NextCalc ==
    \/ ReadVIDResolution \/ WriteVoutCommandCode \/ DecodeStatusWord
    \/ AardvarkWord \/ PCIeWord \/ WriteIoutOcWarnLimit
    \/ GetTelemetry \/ GetTelemetryBasic

SpecCalc == InitCalc /\ [][NextCalc]_vars

---------------------------------------------------------------------------
(* Properties of the computations (SpecCalc) *)

\* the step of the table of the register description for bits 12:10 = code,
\* with 1000/1024 mV for code 7
SpecVidStep(code) ==
    CASE code = 0 -> [num |-> 25, den |-> 4]
      [] code = 1 -> [num |-> 5, den |-> 1]
      [] code = 2 -> [num |-> 5, den |-> 2]
      [] code = 3 -> [num |-> 2, den |-> 1]
      [] code = 4 -> [num |-> 1, den |-> 1]
      [] code = 5 -> [num |-> 1, den |-> 256]
      [] code = 6 -> [num |-> 1, den |-> 512]
      [] code = 7 -> [num |-> 1000, den |-> 1024]

\* two fractions are the same number
SameStep(s, t) == s.num * t.den = t.num * s.den

C22_AllOnesGivesQuarterMillivolt ==
    (/\ scenario = "calc" /\ result.name = "Read_VID_Resolution"
     /\ result.page = 0 /\ raw = 65535) =>
        SameStep(result.vid_step, [num |-> 1, den |-> 4])

StatusBit ==
    [VOUT |-> 15, IOUT |-> 14, INPUT |-> 13, MFR_SPECIFIC |-> 12,
     POWER_GOOD_N |-> 11, WATCH_DOG_OVF |-> 8, NVM_BUSY |-> 7, OFF |-> 6,
     VOUT_OV_FAULT |-> 5, IOUT_OC_FAULT |-> 4, VIN_UV_FAULT |-> 3,
     TEMPERATURE |-> 2, CML |-> 1, OTHER_FAULT |-> 0]

\* C24: all 16 bits of a STATUS_WORD are decoded, and the active faults
\* are the names of the bits that are 1, bits 9 and 10 left out: none for
\* 0x0000 and for reserved bits alone, VOUT alone for 0x8000.
C24_ActiveFaultsAreSetBits ==
    (scenario = "calc" /\ result.name = "decode_status_word") =>
        /\ Cardinality(DOMAIN result.bits) = 16
        /\ \A n \in DOMAIN StatusBit :
              /\ n \in DOMAIN result.bits
              /\ result.bits[n] = (raw \div (2^StatusBit[n])) % 2
        /\ result.active =
              {n \in DOMAIN StatusBit : (raw \div (2^StatusBit[n])) % 2 = 1}
        /\ raw = 0 => result.active = {}
        /\ raw = 32768 => result.active = {"VOUT"}
        /\ raw \in {512, 1024, 1536} => result.active = {}

\* 0x8000 decoded, and a word with a reserved bit and another one
C24_Witness ==
    /\ scenario = "calc" /\ result.name = "decode_status_word"
    /\ raw \in {32768, 1538}
    /\ Cardinality(result.active) = 1


\* C27: a word split into wire bytes by setIndirectDataBuffer2 is <<lo,
\* hi>>, byteArrayToLittleEndian puts the bytes together as hi * 256 + lo,
\* which is the word again, and the PCIe reassembly gives the same number.
C27_ByteOrderRoundTrip ==
    (scenario = "calc"
     /\ result.name \in {"byteArrayToLittleEndian", "i2c_read_bytes"}) =>
        /\ result.bytes = <<raw % 256, raw \div 256>>
        /\ result.value = result.bytes[2] * 256 + result.bytes[1]
        /\ result.value = raw

\* a word whose two bytes differ, put together by the Aardvark path
C27_Witness ==
    /\ scenario = "calc" /\ result.name = "byteArrayToLittleEndian"
    /\ raw = 4660 /\ result.bytes = <<52, 18>> /\ result.value = 4660

\* C28: Write_IOUT_OC_WARN_LIMIT either writes floor(limit / (8 * scale)),
\* a value in 0..255, to IOUT_OC_WARN_LIMIT, or raises and writes nothing
\* to it.
C28_WarnLimitInByte ==
    (scenario = "calc" /\ result.name = "Write_IOUT_OC_WARN_LIMIT") =>
        LET writes == {i \in DOMAIN result.wire :
                          /\ result.wire[i].k = "w"
                          /\ result.wire[i].reg = PMBusDict.IOUT_OC_WARN_LIMIT}
            scale == raw % 8
        IN  \/ /\ result.st = "error"
               /\ writes = {}
            \/ /\ result.st = "run"
               /\ scale # 0
               /\ Cardinality(writes) = 1
               /\ \A i \in writes :
                     /\ result.wire[i].val \in 0..255
                     /\ result.wire[i].val = arg \div (8 * scale)

\* C29: the 8-bit status fields of a telemetry result are in 0..255 for
\* every word read, and get_telemetry gives what get_telemetry_basic gives.
C29_StatusFieldsAreBytes ==
    (scenario = "calc"
     /\ result.name \in {"get_telemetry", "get_telemetry_basic"}) =>
        /\ result.status \in 0..255
        /\ result.status = get_telemetry_basic_status(raw)


---------------------------------------------------------------------------
(* Properties of the pace of the loops, continued (SpecTimed) *)

\* C26: single- and multi-command logging started for N samples, that is
\* for N sample intervals, has written exactly N rows when it completes,
\* whatever time the reads took.
C26_LogNGivesNSamples ==
    (/\ scenario = "timed"
     /\ loopKind \in {"continuous_single_command_logging",
                      "continuous_multi_command_logging"}
     /\ loopState = "Completed" /\ error_count = 0) =>
        sample_count = total_duration \div sample_interval


---------------------------------------------------------------------------
(* Properties of the sampling loops, continued (SpecLoop) *)

\* C30: continuous_single_command_logging returns False only for a rail
\* or a command it does not know, and then before any bus access; called
\* with a rail and a command it knows it returns True, whether the loop
\* ended Completed or Aborted.
C30_ResultHidesAbort ==
    (scenario = "loop"
     /\ result.name = "continuous_single_command_logging") =>
        /\ result.value = FALSE =>
              /\ loopState = "Rejected"
              /\ result.rail \notin {"TSP_CORE", "TSP_C2C"}
                    \/ result.command \notin command_mapping
              /\ attempts = 0 /\ wirePage = NoPage
        /\ loopState \in {"Completed", "Aborted"} => result.value = TRUE

\* a run that was aborted at the error ceiling has returned True
C30_Witness ==
    /\ scenario = "loop"
    /\ result.name = "continuous_single_command_logging"
    /\ loopState = "Aborted" /\ error_count > ErrorCeiling
    /\ result.value = TRUE


---------------------------------------------------------------------------
(* Properties of the register-bus layer, continued (SpecBus) *)

\* the access puts the word ext into MFR_REG_ACCESS
WritesAddress(a, ext) ==
    a.reg = PMBusDict.MFR_REG_ACCESS /\ a.val = ext

\* in wire the word ext is written to MFR_REG_ACCESS and the data is then
\* read (k = "r") or written (k = "w") at position j, with nothing but
\* PAGE writes and repeats of the two accesses in between
ExtendedPair(wire, ext, k, j) ==
    /\ wire[j].k = k /\ wire[j].reg = PMBusDict.REG_ACCESS
    /\ \E i \in 1..j :
          /\ WritesAddress(wire[i], ext)
          /\ i = j => k = "r"
          /\ \A m \in (i + 1)..(j - 1) :
                \/ ~PageScoped(wire[m])
                \/ wire[m] = [wire[i] EXCEPT !.n = wire[m].n]
                \/ wire[m] = [wire[j] EXCEPT !.n = wire[m].n]

\* C25: an extended read or write writes the extended address to
\* MFR_REG_ACCESS and then reads or writes the data, with PAGE writes
\* only in between; Read_Phase_Currents does so for 0x0C00..0x0C0F in
\* this order and returns values in 0..255.
C25_ExtendedAccessInTwoSteps ==
    (scenario = "bus" /\ lastOp.st = "done") =>
        /\ lastOp.name = "i2c_read16" =>
              ExtendedPair(lastOp.wire, PMBusDict.PHASE1_Current, "r",
                           Len(lastOp.wire))
        /\ lastOp.name = "i2c_write16" =>
              ExtendedPair(lastOp.wire, PMBusDict.VOUT_OFFSET, "w",
                           Len(lastOp.wire))
        /\ lastOp.name = "Read_Phase_Currents" =>
              LET wire == lastOp.wire
                  reads == SelectSeq([i \in DOMAIN wire |-> i],
                                     LAMBDA i : wire[i].k = "r")
              IN  /\ Len(reads) = 16
                  /\ \A n \in 1..16 :
                        ExtendedPair(SubSeq(wire,
                                            IF n = 1 THEN 1
                                            ELSE reads[n - 1] + 1,
                                            reads[n]),
                                     3072 + n - 1, "r",
                                     reads[n] - (IF n = 1 THEN 0
                                                 ELSE reads[n - 1]))
                  /\ \A n \in 1..16 : lastOp.ret.phases[n] \in 0..255

===========================================================================
